---- MODULE Spec2Model ----
(***************************************************************************)
(* DataLog::Log - circular, block-structured log on a raw flash partition. *)
(*                                                                         *)
(* The flash partition is modelled byte by byte (a function from byte      *)
(* offsets to 0..255); a write can only clear bits (bitwise AND with the   *)
(* old contents) and an erase sets a whole block to 0xFF.  Log::init is    *)
(* one atomic action (it only reads).  Log::writeEntry is split at every   *)
(* partition operation, so that a loss of power can fall between any two   *)
(* of them; each partition operation itself is atomic.                     *)
(***************************************************************************)
EXTENDS Integers, Sequences, FiniteSets, TLC

VARIABLES
    flash,          \* partition contents: [0 .. partBlocks*BlockSize-1 -> 0..255]
    partBlocks,     \* partition.size() / blockSize of the partition in use
    startBlock,     \* Log::startBlock  {number, sequence}
    endBlock,       \* Log::endBlock    {number, sequence}
    writeOffset,    \* Log::writeOffset
    blockSize,      \* Log::blockSize
    totalBlocks,    \* Log::totalBlocks
    state,          \* Log::state
    pc,             \* position inside Log::writeEntry ("idle" outside a call)
    call,           \* arguments of the writeEntry call in flight
    ret,            \* result of the last writeEntry: "true", "false", "none" after init or crash
    lastOp,         \* history: the partition operation issued by the last step
    blockSeqs,      \* history: sequences of the block-start records written, in order
    entries,        \* history: caller entries on flash, in call order
    crashes,        \* history: number of losses of power so far
    callOps,        \* history: the partition operations issued by the call in flight (or the last call)
    abandoned,      \* history: the partition operations of the call that a fault handler interrupted
    handler,        \* history: the call in flight (or the last call) was made by a fault handler
    faults,         \* history: number of fault-handler re-entries so far
    inits,          \* history: number of Log::init calls that succeeded (2: two or more)
    partition,      \* Log::partition: the partition passed to the last init that got to store it
    initRet,        \* result of the last Log::init: "true", "false", "none"
    reader,         \* the Reader bound to the Log, if any
    tableCount,     \* Log::tableCount (static: one counter for all Log objects)
    tableIds        \* history: the ids given to the Tables constructed since the last restart

vars == <<flash, partBlocks, startBlock, endBlock, writeOffset, blockSize,
          totalBlocks, state, pc, call, ret, lastOp, blockSeqs, entries, crashes,
          callOps, abandoned, handler, faults, inits, partition, initRet, reader,
          tableCount, tableIds>>

ram == <<startBlock, endBlock, writeOffset, blockSize, totalBlocks, state>>

(***************************************************************************)
(* Bounds of the model                                                     *)
(***************************************************************************)
BlockWords == 6
MaxTotalBlocks == 2
MaxSeq == 3
MaxCrashes == 1
MaxFaults == 1
MaxTables == 3
MaxScanBlocks == 3

(***************************************************************************)
(* Program constants                                                       *)
(***************************************************************************)
\* magic 0xA78BE044 as it lies on flash (little-endian); TLC's integers are
\* 32-bit signed, so the word itself is not a value of the model
MagicBytes == <<68, 224, 139, 167>>
KindPad == 0
KindBlock == 1
KindBoot == 2
KindTable == 4
KindField == 5
KindMap == 8
KindErased == 255
HeaderSize == 4
BlockPayloadSize == 8
FlagsErased == 255
FlagsValid == 254

ErasedByte == KindErased
BlockSize == 4 * BlockWords
BlockStartSize == HeaderSize + BlockPayloadSize

BlockInfo(n, s) == [number |-> n, sequence |-> s]

ALIGNUP4(n) == ((n + 3) \div 4) * 4

\* uint32_t sequences: MaxSeq keeps them far below 2^32, so ++sequence never wraps

(***************************************************************************)
(* Bytes                                                                   *)
(***************************************************************************)
RECURSIVE BitAnd(_, _)
BitAnd(a, b) ==
    IF a = 0 \/ b = 0 THEN 0
    ELSE (a % 2) * (b % 2) + 2 * BitAnd(a \div 2, b \div 2)

LE16(v) == <<v % 256, (v \div 256) % 256>>
LE32(v) == <<v % 256, (v \div 256) % 256, (v \div 65536) % 256, (v \div 16777216) % 256>>

HeaderBytes(size, kind, flags) == LE16(size) \o <<kind, flags>>

BlockStartBytes(seq) ==
    HeaderBytes(BlockPayloadSize, KindBlock, FlagsErased) \o MagicBytes \o LE32(seq)

Fill(len, byte) == [i \in 1..len |-> byte]

(***************************************************************************)
(* Partition adapter                                                       *)
(***************************************************************************)
PartSize(f) == partBlocks * BlockSize

InRange(f, off, len) == len > 0 /\ off >= 0 /\ off + len <= PartSize(f)

PartRead(f, off, len) ==
    IF InRange(f, off, len) THEN [i \in 1..len |-> f[off + i - 1]]
    ELSE [i \in 1..len |-> 0]

PartWrite(f, off, bytes) ==
    IF ~InRange(f, off, Len(bytes)) THEN f
    ELSE [i \in DOMAIN f |->
            IF i >= off /\ i < off + Len(bytes)
            THEN IF f[i] = ErasedByte THEN bytes[i - off + 1]
                 ELSE BitAnd(f[i], bytes[i - off + 1])
            ELSE f[i]]

PartErase(f, off, len) ==
    IF ~InRange(f, off, len) THEN f
    ELSE [i \in DOMAIN f |-> IF i >= off /\ i < off + len THEN ErasedByte ELSE f[i]]

ReadHeader(f, off) ==
    LET b == PartRead(f, off, HeaderSize)
    IN  [size |-> b[1] + 256 * b[2], kind |-> b[3], flags |-> b[4]]

ReadU32(f, off) ==
    LET b == PartRead(f, off, 4)
    IN  b[1] + 256 * b[2] + 65536 * b[3] + 16777216 * b[4]

(***************************************************************************)
(* Log::init                                                               *)
(***************************************************************************)
BlockStartIsValid(f, off) ==
    LET h == ReadHeader(f, off)
    IN  /\ h.size = BlockPayloadSize
        /\ h.kind = KindBlock
        /\ PartRead(f, off + HeaderSize, 4) = MagicBytes

ReadSequences(f, bs, n) ==
    [b \in 0..(n - 1) |->
        IF BlockStartIsValid(f, b * bs) THEN ReadU32(f, b * bs + HeaderSize + 4) ELSE 0]

\* the search for the end block with a test that also takes an equal sequence
RECURSIVE FindEndBlockLast(_, _, _, _)
FindEndBlockLast(seqs, n, b, best) ==
    IF b >= n THEN best
    ELSE FindEndBlockLast(seqs, n, b + 1,
                          IF seqs[b] >= best.sequence THEN BlockInfo(b, seqs[b]) ELSE best)

\* if(seq > endBlock.sequence) endBlock = BlockInfo{block, seq};
RECURSIVE FindEndBlock(_, _, _, _)
FindEndBlock(seqs, n, b, best) ==
    IF b >= n THEN best
    ELSE FindEndBlock(seqs, n, b + 1,
                      IF seqs[b] > best.sequence THEN BlockInfo(b, seqs[b]) ELSE best)

RECURSIVE FindStartBlock(_, _, _)
FindStartBlock(seqs, n, block) ==
    IF block.sequence = 1 THEN block
    ELSE LET prev == BlockInfo(IF block.number = 0 THEN n - 1 ELSE block.number - 1,
                               block.sequence - 1)
         IN  IF prev.sequence = seqs[prev.number]
             THEN FindStartBlock(seqs, n, prev)
             ELSE block

\* a scan that goes on from the write offset of the Log in RAM
ScanEndBlockResumed(f, wo, endOffset) ==
    IF state = "ready" THEN writeOffset + HeaderSize ELSE wo

\* the scan of the end block with a step that is not aligned
RECURSIVE ScanEndBlockUnaligned(_, _, _)
ScanEndBlockUnaligned(f, wo, endOffset) ==
    LET header == ReadHeader(f, wo)
    IN  IF header.kind = KindErased THEN wo
        ELSE LET next == wo + HeaderSize + header.size
             IN  IF next < endOffset THEN ScanEndBlockUnaligned(f, next, endOffset) ELSE next

\* do { read header; if erased break; writeOffset += ALIGNUP4(sizeof(header) + header.size); }
\* while(writeOffset < endOffset);
RECURSIVE ScanEndBlock(_, _, _)
ScanEndBlock(f, wo, endOffset) ==
    LET header == ReadHeader(f, wo)
    IN  IF header.kind = KindErased THEN wo
        ELSE LET next == wo + ALIGNUP4(HeaderSize + header.size)
             IN  IF next < endOffset THEN ScanEndBlock(f, next, endOffset) ELSE next

\* the backwards scan without the stop at sequence 1
RECURSIVE StartWalkPastFirst(_, _, _)
StartWalkPastFirst(seqs, n, block) ==
    LET prev == BlockInfo(IF block.number = 0 THEN n - 1 ELSE block.number - 1,
                          block.sequence - 1)
    IN  IF block.sequence > 0 /\ prev.sequence = seqs[prev.number]
        THEN <<block>> \o StartWalkPastFirst(seqs, n, prev)
        ELSE <<block>>

\* The blocks that the backwards scan assigns to startBlock, in order:
\* do { startBlock = block; if(block.sequence == 1) break; step back; --block.sequence; }
\* while(block.sequence == sequences[block.number]);
RECURSIVE StartWalk(_, _, _)
StartWalk(seqs, n, block) ==
    IF block.sequence = 1 THEN <<block>>
    ELSE LET prev == BlockInfo(IF block.number = 0 THEN n - 1 ELSE block.number - 1,
                               block.sequence - 1)
         IN  IF prev.sequence = seqs[prev.number]
             THEN <<block>> \o StartWalk(seqs, n, prev)
             ELSE <<block>>

\* The values of writeOffset at the head of each pass of the end-block scan,
\* and the value that the scan leaves:
\* do { read header; if erased break; writeOffset += ALIGNUP4(sizeof(header) + header.size); }
\* while(writeOffset < endOffset);
RECURSIVE ScanOffsets(_, _, _)
ScanOffsets(f, wo, endOffset) ==
    LET header == ReadHeader(f, wo)
    IN  IF header.kind = KindErased THEN <<wo>>
        ELSE LET next == wo + ALIGNUP4(HeaderSize + header.size)
             IN  IF next < endOffset THEN <<wo>> \o ScanOffsets(f, next, endOffset)
                 ELSE <<wo, next>>

InitResult(f, bs, n) ==
    LET seqs == ReadSequences(f, bs, n)
        eb   == FindEndBlock(seqs, n, 0, BlockInfo(0, 0))
    IN  IF eb.sequence = 0
        THEN [startBlock |-> eb, endBlock |-> eb, writeOffset |-> 0]
        ELSE LET endOffset == eb.number * bs + bs
                 wo        == ScanEndBlock(f, eb.number * bs, endOffset)
             IN  [startBlock  |-> FindStartBlock(seqs, n, eb),
                  endBlock    |-> eb,
                  writeOffset |-> IF wo > endOffset THEN endOffset ELSE wo]

NoCall == [kind |-> 0, infoLength |-> 0, dataLength |-> 0]
NoOp == [op |-> "none", off |-> 0, len |-> 0]
NoReader == [kind |-> "none", startBlock |-> 0, size |-> 0, readPos |-> 0, done |-> FALSE,
             phase |-> "read", max |-> 0, logRes |-> 0, res |-> 0, got |-> <<>>]

\* The partitions that the application can pass to init: an invalid handle, a
\* partition on a device that reports a block size of zero, a partition that is
\* smaller than one block, and the log partition.
Partitions == {"invalid", "zeroblock", "small", "log"}

PartitionValid(p) == p # "invalid"
GetBlockSize(p) == IF p = "zeroblock" THEN 0 ELSE BlockSize
PartitionBlocks(p) == IF p = "log" THEN partBlocks ELSE 0

Saturate(n) == IF n < 2 THEN n + 1 ELSE 2

LogInit(p) ==
    /\ pc = "idle"
    /\ IF ~PartitionValid(p)
       THEN /\ initRet' = "false"
            /\ UNCHANGED <<partition, ram, inits>>
       ELSE IF GetBlockSize(p) = 0
       THEN /\ partition' = p
            /\ blockSize' = GetBlockSize(p)
            /\ initRet' = "false"
            /\ UNCHANGED <<startBlock, endBlock, writeOffset, totalBlocks, state, inits>>
       ELSE LET r == InitResult(flash, GetBlockSize(p), PartitionBlocks(p))
            IN  /\ partition' = p
                /\ blockSize' = GetBlockSize(p)
                /\ totalBlocks' = PartitionBlocks(p)
                /\ startBlock' = r.startBlock
                /\ endBlock' = r.endBlock
                /\ writeOffset' = r.writeOffset
                /\ state' = "ready"
                /\ initRet' = "true"
                /\ inits' = Saturate(inits)
    /\ ret' = "none"
    /\ lastOp' = NoOp
    /\ callOps' = <<>>
    /\ abandoned' = <<>>
    /\ handler' = FALSE
    /\ UNCHANGED <<flash, partBlocks, pc, call, blockSeqs, entries, crashes, faults, reader,
                   tableCount, tableIds>>

(***************************************************************************)
(* Log::writeEntry                                                         *)
(***************************************************************************)
\* The calls made by the application: an empty map record, a table record
\* (2 bytes of info and a 6-byte name) and a field record (4 bytes of info)
\* whose name makes the total size blockSize - 4, which is more than the space
\* that follows a block-start record; and the boot record (1 byte of info,
\* the reset reason) that is written after a restart.
FitCalls ==
    { [kind |-> KindMap,   infoLength |-> 0, dataLength |-> 0],
      [kind |-> KindTable, infoLength |-> 2, dataLength |-> 6] }

BootCall == [kind |-> KindBoot, infoLength |-> 1, dataLength |-> 0]

BootCalls == FitCalls \cup {BootCall}

Calls ==
    FitCalls \cup { [kind |-> KindField, infoLength |-> 4, dataLength |-> BlockSize - 12] }

InfoBytes(c) == Fill(c.infoLength, 16 + c.kind)
DataBytes(c) == Fill(c.dataLength, 32 + c.kind)

EntrySize(c) == HeaderSize + c.infoLength + c.dataLength
HeaderSizeField(c) == (c.infoLength + c.dataLength) % 65536
\* the space of a whole block, wherever writeOffset stands
SpaceOfBlock(wo, bs) == bs

\* auto space = blockSize - (writeOffset % blockSize);
Space(wo, bs) == bs - (wo % bs)

\* a pad is written also when the entry fills the space exactly
NeedsPadExactFit(space, c) == space <= EntrySize(c)

\* if(space < entrySize)
NeedsPad(space, c) == space < EntrySize(c)

Op(what, off, len) == [what |-> what, off |-> off, len |-> len]

\* state == busy on entry: the call interrupts another one
Recover(f, wo, bs, n) ==
    IF wo % bs = 0 THEN wo
    ELSE LET w == wo % (bs * n)
             header == ReadHeader(f, w)
         IN  IF header.kind # KindErased
             THEN w + HeaderSize + ALIGNUP4(header.size)
             ELSE w

\* writeEntry with a test of the state that stops a re-entered call instead of
\* a call on a Log that was never initialised
RefusesBusy(st) == st = "busy"

\* if(state == State::uninitialised) return false;
Refuses(st) == st = "uninitialised"

WriteEntryRefused ==
    /\ pc = "idle"
    /\ Refuses(state)
    /\ ret' = "false"
    /\ lastOp' = NoOp
    /\ callOps' = <<>>
    /\ abandoned' = <<>>
    /\ handler' = FALSE
    /\ UNCHANGED <<flash, partBlocks, ram, partition, initRet, pc, call, blockSeqs, entries,
                   crashes, faults, inits, reader,
                   tableCount, tableIds>>

\* writeEntry up to its first partition operation, on the log partition
EnterWriteEntry(c) ==
    /\ ~Refuses(state)
    /\ partition = "log"
    /\ LET wo == IF state = "busy"
                 THEN Recover(flash, writeOffset, blockSize, totalBlocks)
                 ELSE writeOffset
           space == Space(wo, blockSize)
       IN  /\ (NeedsPad(space, c) \/ wo % blockSize = 0) => endBlock.sequence < MaxSeq
           /\ writeOffset' = wo
           /\ pc' = IF NeedsPad(space, c) THEN "pad"
                    ELSE IF wo % blockSize = 0 THEN "block" ELSE "header"
    /\ state' = "busy"
    /\ call' = c
    /\ ret' = "none"
    /\ lastOp' = NoOp
    /\ callOps' = <<>>
    /\ UNCHANGED <<flash, partBlocks, startBlock, endBlock, blockSize, totalBlocks,
                   partition, initRet, blockSeqs, entries, crashes, inits, reader,
                   tableCount, tableIds>>

WriteEntryBegin(c) ==
    /\ pc = "idle"
    /\ EnterWriteEntry(c)
    /\ abandoned' = <<>>
    /\ handler' = FALSE
    /\ UNCHANGED faults

\* A fault handler calls writeEntry while a call is in flight; the call that
\* it interrupts never resumes.  The fault falls between two partition
\* operations of the interrupted call (the update of writeOffset that follows
\* an operation counts with it).
WriteEntryReentered(c) ==
    /\ pc # "idle"
    /\ faults < MaxFaults
    /\ EnterWriteEntry(c)
    /\ abandoned' = callOps
    /\ handler' = TRUE
    /\ faults' = faults + 1

\* Entry::Header{.size = uint16_t(space - sizeof(Entry::Header)), .kind = pad, .flags = 0}
PadHeader(space) == HeaderBytes((space - HeaderSize) % 65536, KindPad, 0)

WritePad ==
    /\ pc = "pad"
    /\ LET space == Space(writeOffset, blockSize)
       IN  /\ flash' = PartWrite(flash, writeOffset, PadHeader(space))
           /\ lastOp' = [op |-> "write", off |-> writeOffset, len |-> HeaderSize]
           /\ callOps' = Append(callOps, Op("pad", writeOffset, HeaderSize))
           /\ writeOffset' = writeOffset + space
           /\ pc' = IF (writeOffset + space) % blockSize = 0 THEN "block" ELSE "header"
    /\ UNCHANGED <<partBlocks, startBlock, endBlock, blockSize, totalBlocks, state,
                   partition, initRet, call, ret, blockSeqs, entries, crashes,
                   abandoned, handler, faults, inits, reader,
                   tableCount, tableIds>>

Retire(start, end, n) ==
    IF end.number = start.number /\ start.sequence # 0
    THEN BlockInfo((start.number + 1) % n, start.sequence + 1)
    ELSE start

\* a bug: the block number is stepped instead of being taken from writeOffset
NextEndBlockStepped(end, wo, bs) == BlockInfo(end.number + 1, end.sequence + 1)

NextEndBlock(end, wo, bs) == BlockInfo(wo \div bs, end.sequence + 1)

BeginBlock ==
    /\ pc = "block"
    /\ LET wo == writeOffset % (blockSize * totalBlocks)
           eb == NextEndBlock(endBlock, wo, blockSize)
       IN  /\ writeOffset' = wo
           /\ endBlock' = eb
           /\ startBlock' = Retire(startBlock, eb, totalBlocks)
    /\ pc' = "erase"
    /\ lastOp' = NoOp
    /\ UNCHANGED <<flash, partBlocks, blockSize, totalBlocks, state, partition, initRet,
                   call, ret, blockSeqs, entries, crashes, callOps, abandoned, handler,
                   faults, inits, reader,
                   tableCount, tableIds>>

InBlockAt(off, at, bs) == off >= at /\ off < at + bs

EraseBlock ==
    /\ pc = "erase"
    /\ flash' = PartErase(flash, writeOffset, blockSize)
    /\ lastOp' = [op |-> "erase", off |-> writeOffset, len |-> blockSize]
    /\ callOps' = Append(callOps, Op("erase", writeOffset, blockSize))
    /\ entries' = SelectSeq(entries, LAMBDA e : ~InBlockAt(e.off, writeOffset, blockSize))
    /\ pc' = "blockstart"
    /\ UNCHANGED <<partBlocks, ram, partition, initRet, call, ret, blockSeqs, crashes,
                   abandoned, handler, faults, inits, reader,
                   tableCount, tableIds>>

WriteBlockStart ==
    /\ pc = "blockstart"
    /\ flash' = PartWrite(flash, writeOffset, BlockStartBytes(endBlock.sequence))
    /\ lastOp' = [op |-> "write", off |-> writeOffset, len |-> BlockStartSize]
    /\ callOps' = Append(callOps, Op("block", writeOffset, BlockStartSize))
    /\ blockSeqs' = Append(blockSeqs, endBlock.sequence)
    /\ writeOffset' = writeOffset + BlockStartSize
    /\ pc' = "header"
    /\ UNCHANGED <<partBlocks, startBlock, endBlock, blockSize, totalBlocks, state,
                   partition, initRet, call, ret, entries, crashes, abandoned, handler,
                   faults, inits, reader,
                   tableCount, tableIds>>

\* a first header write that already carries the cleared invalid bit
UncommittedHeaderValid(c) == HeaderBytes(HeaderSizeField(c), c.kind, FlagsValid)

\* Entry::Header{.size = infoLength + dataLength, .kind = kind, .flags = 0xff}
UncommittedHeader(c) == HeaderBytes(HeaderSizeField(c), c.kind, FlagsErased)

WriteHeader ==
    /\ pc = "header"
    /\ flash' = PartWrite(flash, writeOffset, UncommittedHeader(call))
    /\ lastOp' = [op |-> "write", off |-> writeOffset, len |-> HeaderSize]
    /\ callOps' = Append(callOps, Op("header", writeOffset, HeaderSize))
    /\ entries' = IF InRange(flash, writeOffset, HeaderSize)
                   THEN Append(entries, [off |-> writeOffset, call |-> call])
                   ELSE entries
    /\ pc' = "info"
    /\ UNCHANGED <<partBlocks, ram, partition, initRet, call, ret, blockSeqs, crashes,
                   abandoned, handler, faults, inits, reader,
                   tableCount, tableIds>>

WriteInfo ==
    /\ pc = "info"
    /\ flash' = PartWrite(flash, writeOffset + HeaderSize, InfoBytes(call))
    /\ lastOp' = [op |-> "write", off |-> writeOffset + HeaderSize, len |-> call.infoLength]
    /\ callOps' = Append(callOps, Op("info", writeOffset + HeaderSize, call.infoLength))
    /\ pc' = IF call.dataLength # 0 THEN "data" ELSE "commit"
    /\ UNCHANGED <<partBlocks, ram, partition, initRet, call, ret, blockSeqs, entries,
                   crashes, abandoned, handler, faults, inits, reader,
                   tableCount, tableIds>>

WriteData ==
    /\ pc = "data"
    /\ flash' = PartWrite(flash, writeOffset + HeaderSize + call.infoLength, DataBytes(call))
    /\ lastOp' = [op |-> "write", off |-> writeOffset + HeaderSize + call.infoLength,
                  len |-> call.dataLength]
    /\ callOps' = Append(callOps, Op("data", writeOffset + HeaderSize + call.infoLength,
                                     call.dataLength))
    /\ pc' = "commit"
    /\ UNCHANGED <<partBlocks, ram, partition, initRet, call, ret, blockSeqs, entries,
                   crashes, abandoned, handler, faults, inits, reader,
                   tableCount, tableIds>>

CommitHeader ==
    /\ pc = "commit"
    /\ flash' = PartWrite(flash, writeOffset,
                          HeaderBytes(HeaderSizeField(call), call.kind, FlagsValid))
    /\ lastOp' = [op |-> "write", off |-> writeOffset, len |-> HeaderSize]
    /\ callOps' = Append(callOps, Op("commit", writeOffset, HeaderSize))
    /\ pc' = "finish"
    /\ UNCHANGED <<partBlocks, ram, partition, initRet, call, ret, blockSeqs, entries,
                   crashes, abandoned, handler, faults, inits, reader,
                   tableCount, tableIds>>

\* writeOffset advanced by the size of the entry, without the alignment
NextWriteOffsetUnaligned(wo, c) == wo + HeaderSize + HeaderSizeField(c)

\* writeOffset += sizeof(header) + ALIGNUP4(header.size)
NextWriteOffset(wo, c) == wo + HeaderSize + ALIGNUP4(HeaderSizeField(c))

Finish ==
    /\ pc = "finish"
    /\ writeOffset' = NextWriteOffset(writeOffset, call)
    /\ state' = "ready"
    /\ ret' = "true"
    /\ pc' = "idle"
    /\ call' = NoCall
    /\ lastOp' = NoOp
    /\ UNCHANGED <<flash, partBlocks, startBlock, endBlock, blockSize, totalBlocks,
                   partition, initRet, blockSeqs, entries, crashes, callOps, abandoned,
                   handler, faults, inits, reader,
                   tableCount, tableIds>>

(***************************************************************************)
(* Loss of power inside writeEntry: the flash keeps what has been written, *)
(* the RAM state is that of a newly constructed Log.                       *)
(***************************************************************************)
Reset ==
    /\ startBlock' = BlockInfo(0, 0)
    /\ endBlock' = BlockInfo(0, 0)
    /\ writeOffset' = 0
    /\ blockSize' = 0
    /\ totalBlocks' = 0
    /\ state' = "uninitialised"
    /\ partition' = "none"
    /\ initRet' = "none"
    /\ pc' = "idle"
    /\ call' = NoCall
    /\ ret' = "none"
    /\ lastOp' = NoOp
    /\ callOps' = <<>>
    /\ abandoned' = <<>>
    /\ handler' = FALSE
    /\ reader' = NoReader
    /\ tableCount' = 0
    /\ tableIds' = <<>>
    /\ crashes' = crashes + 1
    /\ UNCHANGED <<flash, partBlocks, blockSeqs, entries, faults, inits>>

Crash ==
    /\ pc # "idle"
    /\ crashes < MaxCrashes
    /\ Reset

(***************************************************************************)
(* writeEntry on a Log that is bound to a partition without blocks         *)
(* (blockSize or totalBlocks is zero).  No operation reaches the log       *)
(* partition.  Where the code divides by zero the behaviour is undefined:  *)
(* the processor traps and the system restarts, or the division yields     *)
(* zero and the call goes on.                                              *)
(***************************************************************************)
DividesByZero(c) ==
    IF blockSize = 0 THEN TRUE
    ELSE totalBlocks = 0 /\ (Space(writeOffset, blockSize) < EntrySize(c)
                             \/ writeOffset % blockSize = 0)

WriteEntryOffLog(c) ==
    /\ pc = "idle"
    /\ ~Refuses(state)
    /\ partition # "log"
    /\ \/ /\ DividesByZero(c)
          /\ crashes < MaxCrashes
          /\ Reset
       \/ /\ IF DividesByZero(c)
             THEN LET eb == NextEndBlock(endBlock, 0, BlockSize)
                  IN  /\ endBlock.sequence < MaxSeq
                      /\ endBlock' = eb
                      /\ startBlock' = Retire(startBlock, eb, totalBlocks)
                      /\ writeOffset' = NextWriteOffset(BlockStartSize, c)
                      /\ callOps' = <<Op("block", 0, BlockStartSize),
                                      Op("header", BlockStartSize, HeaderSize)>>
             ELSE /\ writeOffset' = NextWriteOffset(writeOffset, c)
                  /\ callOps' = <<Op("header", writeOffset, HeaderSize)>>
                  /\ UNCHANGED <<startBlock, endBlock>>
          /\ state' = "ready"
          /\ ret' = "true"
          /\ lastOp' = [op |-> "write", off |-> writeOffset, len |-> HeaderSize]
          /\ abandoned' = <<>>
          /\ handler' = FALSE
          /\ UNCHANGED <<flash, partBlocks, blockSize, totalBlocks, partition, initRet,
                         pc, call, blockSeqs, entries, crashes, faults, inits, reader,
                   tableCount, tableIds>>

Init ==
    /\ partBlocks \in 1..MaxTotalBlocks
    /\ flash = [i \in 0..(partBlocks * BlockSize - 1) |-> ErasedByte]
    /\ startBlock = BlockInfo(0, 0)
    /\ endBlock = BlockInfo(0, 0)
    /\ writeOffset = 0
    /\ blockSize = 0
    /\ totalBlocks = 0
    /\ state = "uninitialised"
    /\ partition = "none"
    /\ initRet = "none"
    /\ pc = "idle"
    /\ call = NoCall
    /\ ret = "none"
    /\ lastOp = NoOp
    /\ blockSeqs = <<>>
    /\ entries = <<>>
    /\ crashes = 0
    /\ callOps = <<>>
    /\ abandoned = <<>>
    /\ handler = FALSE
    /\ faults = 0
    /\ inits = 0
    /\ reader = NoReader
    /\ tableCount = 0
    /\ tableIds = <<>>

WriteSteps ==
    \/ LogInit("log")
    \/ WriteEntryRefused
    \/ WritePad
    \/ BeginBlock
    \/ EraseBlock
    \/ WriteBlockStart
    \/ WriteHeader
    \/ WriteInfo
    \/ WriteData
    \/ CommitHeader
    \/ Finish

Steps ==
    \/ WriteSteps
    \/ Crash

Next ==
    \/ \E c \in Calls : WriteEntryBegin(c)
    \/ Steps

Spec == Init /\ [][Next]_vars

\* Only entries that fit in the space that follows a block-start record.
NextFit ==
    \/ \E c \in FitCalls : WriteEntryBegin(c)
    \/ Steps

SpecFit == Init /\ [][NextFit]_vars

\* A fault handler may call writeEntry while a call is in flight (the power
\* is not lost).
NextFault ==
    \/ \E c \in Calls : WriteEntryBegin(c)
    \/ \E c \in Calls : WriteEntryReentered(c)
    \/ WriteSteps

SpecFault == Init /\ [][NextFault]_vars

\* The application writes a boot record after a restart.
NextBoot ==
    \/ \E c \in BootCalls : WriteEntryBegin(c)
    \/ Steps

SpecBoot == Init /\ [][NextBoot]_vars

\* The application also passes partitions that cannot hold a log to init.
NextInit ==
    \/ NextFit
    \/ \E p \in Partitions \ {"log"} : LogInit(p)
    \/ \E c \in FitCalls : WriteEntryOffLog(c)

SpecInit == Init /\ [][NextInit]_vars

(***************************************************************************)
(* Log::init on a partition with any contents: block records with any      *)
(* sequences, blocks that start with something else, and end blocks with   *)
(* complete, torn and foreign records.                                     *)
(***************************************************************************)
\* The first 12 bytes of a block: erased, a block record with a sequence, a
\* block record with a wrong magic, with another kind, with another size.
BlockHeads ==
    {Fill(BlockStartSize, ErasedByte)}
    \cup {BlockStartBytes(q) : q \in 1..MaxSeq}
    \cup {HeaderBytes(BlockPayloadSize, KindBlock, FlagsErased) \o <<68, 224, 139, 166>> \o LE32(MaxSeq),
          HeaderBytes(BlockPayloadSize, KindMap, FlagsValid) \o MagicBytes \o LE32(MaxSeq),
          HeaderBytes(4, KindBlock, FlagsErased) \o MagicBytes \o LE32(MaxSeq)}

TailSize == BlockSize - BlockStartSize

ErasedFrom(t) == t \o Fill(TailSize - Len(t), ErasedByte)

\* What follows the first 12 bytes: nothing; one map record; a boot record; a
\* table record whose header is not committed; map records up to the end of
\* the block; a record that fills the block exactly; a record whose size
\* reaches beyond the block; a header with size 0xFFFF.
BlockTails ==
    { ErasedFrom(<<>>),
      ErasedFrom(HeaderBytes(0, KindMap, FlagsValid)),
      ErasedFrom(HeaderBytes(1, KindBoot, FlagsValid) \o <<1>>),
      ErasedFrom(HeaderBytes(2, KindTable, FlagsErased) \o <<1, 0>>),
      [i \in 1..TailSize |-> HeaderBytes(0, KindMap, FlagsValid)[((i - 1) % 4) + 1]],
      HeaderBytes(TailSize - 4, KindTable, FlagsValid) \o Fill(TailSize - 4, 36),
      HeaderBytes(TailSize, KindField, FlagsErased) \o Fill(TailSize - 4, 37),
      ErasedFrom(HeaderBytes(65535, KindPad, 0)) }

\* init reads beyond the first 12 bytes only in a block that starts with a
\* block record
BlockImages ==
    {h \o ErasedFrom(<<>>) : h \in BlockHeads}
    \cup {BlockStartBytes(q) \o t : q \in 1..MaxSeq, t \in BlockTails}

InitScan ==
    /\ partBlocks \in 1..MaxScanBlocks
    /\ \E img \in [0..(partBlocks - 1) -> BlockImages] :
           flash = [i \in 0..(partBlocks * BlockSize - 1) |->
                       img[i \div BlockSize][(i % BlockSize) + 1]]
    /\ startBlock = BlockInfo(0, 0)
    /\ endBlock = BlockInfo(0, 0)
    /\ writeOffset = 0
    /\ blockSize = 0
    /\ totalBlocks = 0
    /\ state = "uninitialised"
    /\ partition = "none"
    /\ initRet = "none"
    /\ pc = "idle"
    /\ call = NoCall
    /\ ret = "none"
    /\ lastOp = NoOp
    /\ blockSeqs = <<>>
    /\ entries = <<>>
    /\ crashes = 0
    /\ callOps = <<>>
    /\ abandoned = <<>>
    /\ handler = FALSE
    /\ faults = 0
    /\ inits = 0
    /\ reader = NoReader
    /\ tableCount = 0
    /\ tableIds = <<>>

NextScan == LogInit("log")

\* A partition of a log that has been written for a long time: the sequences
\* of its blocks lie on both sides of 2^16.
WideSequences == (65536 - MaxSeq) .. (65536 + MaxSeq - 1)

WideImages ==
    {Fill(BlockSize, ErasedByte)}
    \cup {BlockStartBytes(q) \o t : q \in WideSequences, t \in BlockTails}

InitWide ==
    /\ partBlocks \in 1..MaxTotalBlocks
    /\ \E img \in [0..(partBlocks - 1) -> WideImages] :
           flash = [i \in 0..(partBlocks * BlockSize - 1) |->
                       img[i \div BlockSize][(i % BlockSize) + 1]]
    /\ startBlock = BlockInfo(0, 0)
    /\ endBlock = BlockInfo(0, 0)
    /\ writeOffset = 0
    /\ blockSize = 0
    /\ totalBlocks = 0
    /\ state = "uninitialised"
    /\ partition = "none"
    /\ initRet = "none"
    /\ pc = "idle"
    /\ call = NoCall
    /\ ret = "none"
    /\ lastOp = NoOp
    /\ blockSeqs = <<>>
    /\ entries = <<>>
    /\ crashes = 0
    /\ callOps = <<>>
    /\ abandoned = <<>>
    /\ handler = FALSE
    /\ faults = 0
    /\ inits = 0
    /\ reader = NoReader
    /\ tableCount = 0
    /\ tableIds = <<>>

SpecWide == InitWide /\ [][NextScan]_vars

SpecScan == InitScan /\ [][NextScan]_vars

(***************************************************************************)
(* Log::read                                                               *)
(***************************************************************************)
\* a minimum that always yields the requested length
MinRequested(a, b) == a

\* std::min
Min(a, b) == IF a < b THEN a ELSE b

\* uint32_t values are kept as the integer with the same 32 bits in two's
\* complement: a value below zero stands for that value plus 2^32.  Sums,
\* differences and products of such values are those of uint32_t as long as
\* they stay far from 2^31, which the bounds of the model ensure.
\* a < b for uint32_t
ULess(a, b) == IF (a < 0) = (b < 0) THEN a < b ELSE b < 0

\* std::min<uint32_t>
UMin(a, b) == IF ULess(a, b) THEN a ELSE b

\* uint32_t readOffset = (startBlock.number + block - startBlock.sequence) * blockSize + offset;
\* if(readOffset >= totalSize) readOffset -= totalSize;
ReadOffset(block, offset) ==
    LET totalSize == totalBlocks * blockSize
        ro == (startBlock.number + block - startBlock.sequence) * blockSize + offset
    IN  IF ~ULess(ro, totalSize) THEN ro - totalSize ELSE ro

\* The result of Log::read: the value returned and the partition reads issued
\* (an offset below zero stands for that offset plus 2^32).
ReadAt(block, offset, bufSize) ==
    LET totalSize == totalBlocks * blockSize
        ro    == ReadOffset(block, offset)
        seam  == ULess(writeOffset, ro)
        len1  == UMin(bufSize, totalSize - ro)
        first == IF seam THEN <<[off |-> ro, len |-> len1]>> ELSE <<>>
        done  == IF seam THEN len1 ELSE 0
        ro2   == IF seam THEN 0 ELSE ro
        len2  == UMin(bufSize - done, writeOffset - ro2)
    IN  [res   |-> done + len2,
         reads |-> IF len2 # 0 THEN Append(first, [off |-> ro2, len |-> len2])
                   ELSE first]

NoData == [res |-> -1, reads |-> <<>>]

\* Log::read with a test of the state that lets through a call made while a
\* writeEntry is in flight
ReadRefusedUninitialised(block) == state = "uninitialised" \/ block > endBlock.sequence

ReadRefused(block) == state # "ready" \/ block > endBlock.sequence

Read(block, offset, bufSize) ==
    IF ReadRefused(block) THEN NoData ELSE ReadAt(block, offset, bufSize)

\* DataLog::read, the read of the class that the sized DataLogReader is bound to
DataLogRead(block, offset, bufSize) ==
    IF state # "ready" THEN NoData ELSE ReadAt(block, offset, bufSize)

\* uint16_t getStartBlock() const { return startBlock.sequence; }
GetStartBlock == startBlock.sequence % 65536

\* uint16_t getEndBlock() const { return endBlock.sequence; }
GetEndBlock == endBlock.sequence % 65536

RECURSIVE ReadBytes(_, _)
ReadBytes(f, reads) ==
    IF reads = <<>> THEN <<>>
    ELSE PartRead(f, Head(reads).off, Head(reads).len) \o ReadBytes(f, Tail(reads))

(***************************************************************************)
(* Reader (DataLogReader): a stream over the log.  The consumer calls      *)
(* readMemoryBlock and then seekFrom(count, Current), until isFinished().  *)
(* While a reader is bound the log is not written.                         *)
(***************************************************************************)
\* The buffer sizes of the consumers: a consumer passes the size of its buffer
\* to every readMemoryBlock
Chunks == {1, BlockSize + 4, 65536}

\* The block counts that a sized reader is bound with
BlockCounts == {0, 1, MaxTotalBlocks}

U16(n) == n % 65536

ReaderBind(s, n) ==
    /\ pc = "idle"
    /\ state = "ready"
    /\ partition = "log"
    /\ reader.kind = "none"
    /\ reader' = [NoReader EXCEPT !.kind = "reader", !.startBlock = U16(s), !.max = n]
    /\ UNCHANGED <<flash, partBlocks, ram, partition, initRet, pc, call, ret, lastOp,
                   blockSeqs, entries, crashes, callOps, abandoned, handler, faults, inits,
                   tableCount, tableIds>>

SizedReaderBind(s, blockCount, n) ==
    /\ pc = "idle"
    /\ state = "ready"
    /\ partition = "log"
    /\ reader.kind = "none"
    /\ reader' = [NoReader EXCEPT !.kind = "sized", !.startBlock = U16(s),
                                  !.size = blockCount * blockSize, !.max = n]
    /\ UNCHANGED <<flash, partBlocks, ram, partition, initRet, pc, call, ret, lastOp,
                   blockSeqs, entries, crashes, callOps, abandoned, handler, faults, inits,
                   tableCount, tableIds>>

\* Reader: the stream is finished when the log returns nothing
FinishedOn(res) == res <= 0

\* sized DataLogReader: the stream is finished when the log refuses the read
FinishedOnRefusal(res) == res < 0

ReadMemoryBlock(bufSize) ==
    /\ reader.kind = "reader"
    /\ reader.phase = "read"
    /\ ~reader.done
    /\ bufSize # 0
    /\ LET block  == reader.startBlock + reader.readPos \div blockSize
           offset == reader.readPos % blockSize
           r      == Read(U16(block), U16(offset), U16(bufSize))
           res    == IF FinishedOn(r.res) THEN 0 ELSE r.res
       IN  reader' = [reader EXCEPT !.done = FinishedOn(r.res),
                                    !.phase = "seek",
                                    !.max = bufSize,
                                    !.logRes = r.res,
                                    !.res = U16(res),
                                    !.got = @ \o ReadBytes(flash, r.reads)]
    /\ UNCHANGED <<flash, partBlocks, ram, partition, initRet, pc, call, ret, lastOp,
                   blockSeqs, entries, crashes, callOps, abandoned, handler, faults, inits,
                   tableCount, tableIds>>

Origins == {"Start", "Current", "End"}

\* Reader::seekFrom: the position, the finished flag and the value returned.
\* readPos is a uint32_t and the value returned an int; the positions of the
\* model stay far below 2^31, where neither wraps.
ReaderSeek(r, offset, origin) ==
    IF origin # "Current"
    THEN [readPos |-> r.readPos, done |-> r.done, ret |-> -1]
    ELSE [readPos |-> r.readPos + offset, done |-> r.done, ret |-> r.readPos + offset]

\* seekFrom of the DataLogReader that is bound with a size
SizedSeek(r, offset, origin) ==
    LET newPos == CASE origin = "Start"   -> offset
                    [] origin = "Current" -> r.readPos + offset
                    [] origin = "End"     -> r.size + offset
    IN  IF newPos > r.size
        THEN [readPos |-> r.readPos, done |-> r.done, ret |-> -1]
        ELSE [readPos |-> newPos, done |-> r.done \/ newPos = r.size, ret |-> newPos]

\* seekFrom(offset, SeekOrigin::Current) with the count that readMemoryBlock returned
SeekFrom ==
    /\ reader.kind = "reader"
    /\ reader.phase = "seek"
    /\ LET x == ReaderSeek(reader, reader.res, "Current")
       IN  reader' = [reader EXCEPT !.readPos = x.readPos, !.done = x.done, !.phase = "read"]
    /\ UNCHANGED <<flash, partBlocks, ram, partition, initRet, pc, call, ret, lastOp,
                   blockSeqs, entries, crashes, callOps, abandoned, handler, faults, inits,
                   tableCount, tableIds>>

SizedReadMemoryBlock(bufSize) ==
    /\ reader.kind = "sized"
    /\ reader.phase = "read"
    /\ ~reader.done
    /\ bufSize # 0
    /\ LET block  == reader.startBlock + reader.readPos \div blockSize
           offset == reader.readPos % blockSize
           bytesToRead == Min(bufSize, reader.size - reader.readPos)
           r      == DataLogRead(U16(block), U16(offset), U16(bytesToRead))
           res    == IF FinishedOnRefusal(r.res) THEN 0 ELSE r.res
       IN  reader' = [reader EXCEPT !.done = FinishedOnRefusal(r.res),
                                    !.phase = "seek",
                                    !.max = bufSize,
                                    !.logRes = r.res,
                                    !.res = U16(res),
                                    !.got = @ \o ReadBytes(flash, r.reads)]
    /\ UNCHANGED <<flash, partBlocks, ram, partition, initRet, pc, call, ret, lastOp,
                   blockSeqs, entries, crashes, callOps, abandoned, handler, faults, inits,
                   tableCount, tableIds>>

SizedSeekFrom ==
    /\ reader.kind = "sized"
    /\ reader.phase = "seek"
    /\ LET x == SizedSeek(reader, reader.res, "Current")
       IN  reader' = [reader EXCEPT !.readPos = x.readPos, !.done = x.done, !.phase = "read"]
    /\ UNCHANGED <<flash, partBlocks, ram, partition, initRet, pc, call, ret, lastOp,
                   blockSeqs, entries, crashes, callOps, abandoned, handler, faults, inits,
                   tableCount, tableIds>>

NextReader ==
    \/ reader.kind = "none" /\ NextFit
    \/ \E s \in {startBlock.sequence, endBlock.sequence + 1}, n \in Chunks : ReaderBind(s, n)
    \/ \E s \in {startBlock.sequence, endBlock.sequence + 1}, n \in Chunks :
           \E blockCount \in BlockCounts : SizedReaderBind(s, blockCount, n)
    \/ ReadMemoryBlock(reader.max)
    \/ SeekFrom
    \/ SizedReadMemoryBlock(reader.max)
    \/ SizedSeekFrom

SpecReader == Init /\ [][NextReader]_vars

\* The consumer loop: a reader is bound to any live sequence, and the consumer
\* goes on calling readMemoryBlock and seekFrom for as long as the stream is
\* not finished.
NextConsume ==
    \/ reader.kind = "none" /\ NextFit
    \/ \E s \in startBlock.sequence .. endBlock.sequence, n \in Chunks : ReaderBind(s, n)
    \/ \E s \in startBlock.sequence .. endBlock.sequence, n \in Chunks :
           \E blockCount \in BlockCounts : SizedReaderBind(s, blockCount, n)
    \/ ReadMemoryBlock(reader.max)
    \/ SeekFrom
    \/ SizedReadMemoryBlock(reader.max)
    \/ SizedSeekFrom

SpecConsume ==
    /\ Init /\ [][NextConsume]_vars
    /\ WF_vars(ReadMemoryBlock(reader.max)) /\ WF_vars(SeekFrom)
    /\ WF_vars(SizedReadMemoryBlock(reader.max)) /\ WF_vars(SizedSeekFrom)

(***************************************************************************)
(* Table: each Table takes its id from the Log that it is constructed on.  *)
(***************************************************************************)
\* The Log objects of the application: the Log of this model and another one
LogObjects == {"log", "other"}

\* the counter and the id returned, with the counter read before the increment
AllocateTableIdPost(count) ==
    [tableCount |-> (count + 1) % 65536, id |-> count]

\* ++tableCount; return tableCount;  (uint16_t)
AllocateTableId(count) ==
    [tableCount |-> (count + 1) % 65536, id |-> (count + 1) % 65536]

\* Table::Table(Log& log) : log(log), id(log.allocateTableId())
TableConstruct(l) ==
    /\ pc = "idle"
    /\ Len(tableIds) < MaxTables
    /\ LET a == AllocateTableId(tableCount)
       IN  /\ tableCount' = a.tableCount
           /\ tableIds' = Append(tableIds, [log |-> l, id |-> a.id, inits |-> inits])
    /\ UNCHANGED <<flash, partBlocks, ram, partition, initRet, pc, call, ret, lastOp,
                   blockSeqs, entries, crashes, callOps, abandoned, handler, faults, inits,
                   reader>>

NextTable ==
    \/ NextFit
    \/ \E l \in LogObjects : TableConstruct(l)

SpecTable == Init /\ [][NextTable]_vars

(***************************************************************************)
(* What lies on flash                                                      *)
(***************************************************************************)
FlashSequence(f, b) == ReadSequences(f, BlockSize, partBlocks)[b]

\* the bytes of the ring from offset `from` on, across the ring seam
RingBytes(f, from, len) ==
    [i \in 1..len |-> f[(from + i - 1) % PartSize(f)]]

Payload(c) == InfoBytes(c) \o DataBytes(c)

\* Linear scan of the ring described by r (a result of init), from the start
\* of r.startBlock to r.writeOffset, stepping by 4 + align4(size); p is the
\* distance from the start of r.startBlock.
RingLength(r) ==
    (r.endBlock.sequence - r.startBlock.sequence) * BlockSize
        + (r.writeOffset - r.endBlock.number * BlockSize)

RECURSIVE ScanRing(_, _, _)
ScanRing(f, r, p) ==
    IF p >= RingLength(r) THEN <<>>
    ELSE LET off == (r.startBlock.number * BlockSize + p) % PartSize(f)
             h   == ReadHeader(f, off)
             rest == ScanRing(f, r, p + HeaderSize + ALIGNUP4(h.size))
         IN  IF h.kind \in {KindPad, KindBlock} THEN rest
             ELSE <<[kind |-> h.kind, size |-> h.size,
                     payload |-> RingBytes(f, off + HeaderSize, Min(h.size, PartSize(f)))]>>
                  \o rest

Written == [i \in DOMAIN entries |->
              [kind |-> entries[i].call.kind,
               size |-> HeaderSizeField(entries[i].call),
               payload |-> Payload(entries[i].call)]]

Idle == pc = "idle"
Returned == pc = "idle" /\ ret = "true"

(***************************************************************************)
(* Claims                                                                  *)
(***************************************************************************)
NoDuplicates(q) == \A i, j \in DOMAIN q : i # j => q[i] # q[j]

InOneBlock(off, len) == len > 0 => off \div BlockSize = (off + len - 1) \div BlockSize

RamState == [startBlock |-> startBlock, endBlock |-> endBlock, writeOffset |-> writeOffset]

\* C1: block sequence numbers are never reused: no block-start record is
\* written with a sequence that an earlier block-start record written on the
\* partition carried, across writes, losses of power and re-inits, for any
\* totalBlocks >= 1.
C1_SequencesNeverReused == NoDuplicates(blockSeqs)

\* C1, for a ring of at least two blocks and entries that fit in a block
\* (checked under SpecFit).
C1_FitTwoBlocks == partBlocks >= 2 => NoDuplicates(blockSeqs)

\* C2: entries never straddle block boundaries: when writeEntry returns true
\* all bytes of the entry (header and payload) lie inside one block, and no
\* single partition.write covers bytes of two blocks.
C2_NoStraddle ==
    /\ pc = "finish" => InOneBlock(writeOffset, EntrySize(call))
    /\ lastOp.op = "write" => InOneBlock(lastOp.off, lastOp.len)

\* C3: two-phase commit: at every point of writeEntry, and after a loss of
\* power at any such point, every caller entry on flash whose header has the
\* invalid bit cleared has its complete payload (info bytes, then data bytes)
\* on flash.
C3_ValidHasPayload ==
    \A i \in DOMAIN entries :
        LET e == entries[i]
        IN  ReadHeader(flash, e.off).flags % 2 = 0 =>
                PartRead(flash, e.off + HeaderSize, Len(Payload(e.call))) = Payload(e.call)

\* C4: after any sequence of successful writeEntry calls starting from an
\* erased partition, init on the same partition yields the startBlock,
\* endBlock and writeOffset that the writing Log holds after its last write.
C4_InitRecoversRam ==
    Returned /\ crashes = 0 => InitResult(flash, blockSize, totalBlocks) = RamState

\* C4, once startBlock carries a sequence (checked under SpecFit).
C4_FitAfterReinit ==
    Returned /\ crashes = 0 /\ startBlock.sequence # 0 =>
        InitResult(flash, blockSize, totalBlocks) = RamState

\* C5: round trip: after any sequence of writeEntry calls, a linear scan of
\* the ring recovered by init (from the start of startBlock to writeOffset,
\* skipping pad and block records) yields the caller entries written in the
\* blocks not yet retired, with the same kind, size and payload, in call order.
C5_RoundTrip ==
    Returned /\ crashes = 0 =>
        ScanRing(flash, InitResult(flash, blockSize, totalBlocks), 0) = Written

\* The offsets and lengths that the read claims try.
ReadOffsets == {0, 4, BlockSize - 4}
ReadLens == {1, BlockSize}

ReadsBlockOf(s) ==
    \A o \in ReadOffsets : \A l \in ReadLens :
        LET r == Read(s, o, l)
        IN  r.res > 0 =>
                \E b \in 0..(partBlocks - 1) :
                    /\ BlockStartIsValid(flash, b * BlockSize)
                    /\ FlashSequence(flash, b) = s
                    /\ ReadBytes(flash, r.reads) = RingBytes(flash, b * BlockSize + o, r.res)

\* C6: in every ready state, for every live sequence s (startBlock.sequence
\* <= s <= endBlock.sequence) and offset < blockSize, Log::read(s, offset, ..)
\* returns the bytes that start at byte offset of the physical block whose
\* block-start record carries s, continuing across the ring seam.
C6_ReadMapsSequence ==
    Idle /\ state = "ready" /\ endBlock.sequence >= 1 =>
        \A s \in startBlock.sequence..endBlock.sequence : ReadsBlockOf(s)

\* C6, once startBlock carries a sequence (checked under SpecFit).
C6_FitAfterReinit ==
    Idle /\ state = "ready" /\ startBlock.sequence >= 1 =>
        \A s \in startBlock.sequence..endBlock.sequence : ReadsBlockOf(s)

LiveRingOnFlash ==
    \A s \in startBlock.sequence..endBlock.sequence :
        LET b == (startBlock.number + s - startBlock.sequence) % totalBlocks
        IN  /\ BlockStartIsValid(flash, b * blockSize)
            /\ FlashSequence(flash, b) = s

\* C7: outside writeEntry, with a non-empty log, for each s in
\* [startBlock.sequence, endBlock.sequence] the physical block
\* (startBlock.number + s - startBlock.sequence) mod totalBlocks begins with a
\* valid block record whose sequence is s.
C7_LiveRingMatchesFlash ==
    Idle /\ state = "ready" /\ endBlock.sequence >= 1 => LiveRingOnFlash

\* C7, once startBlock carries a sequence (checked under SpecFit).
C7_FitAfterReinit ==
    Idle /\ state = "ready" /\ startBlock.sequence >= 1 => LiveRingOnFlash

SpanBounded ==
    /\ startBlock.sequence <= endBlock.sequence
    /\ endBlock.sequence - startBlock.sequence + 1 <= totalBlocks

\* C8: for writes starting from an erased partition, outside writeEntry,
\* startBlock.sequence <= endBlock.sequence and
\* endBlock.sequence - startBlock.sequence + 1 <= totalBlocks.
C8_SpanBounded == Idle /\ state = "ready" /\ crashes = 0 => SpanBounded

\* C8, once startBlock carries a sequence (checked under SpecFit).
C8_FitAfterReinit == Idle /\ state = "ready" /\ startBlock.sequence >= 1 => SpanBounded

\* C9: after any writeEntry that returns true, writeOffset is a multiple of 4
\* and endBlock.number * blockSize <= writeOffset <= (endBlock.number + 1) * blockSize.
C9_WriteOffsetInEndBlock ==
    Returned =>
        /\ writeOffset % 4 = 0
        /\ endBlock.number * blockSize <= writeOffset
        /\ writeOffset <= (endBlock.number + 1) * blockSize

Covers(e, w) == e.what = "erase" /\ e.off <= w.off /\ w.off + w.len <= e.off + e.len

LiveWrites ==
    { j \in DOMAIN abandoned :
        /\ abandoned[j].what # "erase"
        /\ abandoned[j].len > 0
        /\ ~\E k \in DOMAIN abandoned : k > j /\ Covers(abandoned[k], abandoned[j])
        /\ ~\E k \in DOMAIN callOps : Covers(callOps[k], abandoned[j]) }

Overlaps(off, len, w) == off < w.off + w.len /\ w.off < off + len

TornRecords ==
    { j \in LiveWrites :
        /\ abandoned[j].what = "header"
        /\ ReadHeader(flash, abandoned[j].off).flags % 2 = 1 }

HandlerReturned == handler /\ pc = "idle"

\* C11: fault-handler re-entry is safe: when a handler's writeEntry, entered
\* at any point of a call in flight that never resumes, has run to completion,
\* it has returned true, state is ready, its entry is on flash with the
\* invalid bit cleared at an offset that overlaps no bytes written by the
\* interrupted call, and the interrupted call has left at most one record with
\* the invalid bit set.
C11_ReentrySafe ==
    HandlerReturned =>
        /\ ret = "true"
        /\ state = "ready"
        /\ \E i \in DOMAIN callOps :
              /\ callOps[i].what = "header"
              /\ Len(entries) > 0
              /\ LET e == entries[Len(entries)]
                 IN  /\ e.off = callOps[i].off
                     /\ ReadHeader(flash, e.off) =
                            [size |-> HeaderSizeField(e.call), kind |-> e.call.kind,
                             flags |-> FlagsValid]
                     /\ PartRead(flash, e.off + HeaderSize, Len(Payload(e.call)))
                            = Payload(e.call)
                     /\ \A j \in LiveWrites :
                            ~Overlaps(e.off, EntrySize(e.call), abandoned[j])
        /\ Cardinality(TornRecords) <= 1

\* C12: retirement on first wrap: in one session on an erased partition with
\* totalBlocks = N, the block start with sequence N + 1 (which reuses physical
\* block 0) moves startBlock from {0,1} to {1 mod N, 2}.
C12_RetiresOnFirstWrap ==
    [][(/\ pc = "block"
        /\ pc' = "erase"
        /\ inits = 1
        /\ crashes = 0
        /\ endBlock'.sequence = totalBlocks + 1)
       => (/\ startBlock = BlockInfo(0, 1)
           /\ startBlock' = BlockInfo(1 % totalBlocks, 2))]_vars

\* C13: startBlock is advanced before the oldest block is erased: at every
\* erase_range that writeEntry issues on a non-empty log with totalBlocks >= 2
\* the block being erased is not block startBlock.number.
C13_EraseNotStartBlock ==
    pc = "erase" /\ totalBlocks >= 2 /\ endBlock.sequence >= 2 =>
        writeOffset \div blockSize # startBlock.number

\* C13, once startBlock carries a sequence (checked under SpecFit).
C13_FitAfterReinit ==
    pc = "erase" /\ totalBlocks >= 2 /\ endBlock.sequence >= 2 /\ startBlock.sequence >= 1 =>
        writeOffset \div blockSize # startBlock.number

\* A call of writeEntry by the application, whatever the Log is bound to.
WriteEntryCalled ==
    \/ WriteEntryRefused
    \/ \E c \in FitCalls : WriteEntryBegin(c) \/ WriteEntryOffLog(c)

C14_NeverReadyRefuses ==
    [][/\ \A p \in {"invalid", "zeroblock"} : LogInit(p) => initRet' = "false"
       /\ initRet = "false" /\ inits = 0 /\ WriteEntryCalled => WriteEntryRefused]_vars

\* C15: writeEntry on a Log whose init has never succeeded (state
\* uninitialised) returns false, performs no partition read, write or erase,
\* and leaves startBlock, endBlock, writeOffset and state unchanged.
C15_UninitialisedRefuses ==
    [][state = "uninitialised" /\ WriteEntryCalled =>
           /\ ret' = "false"
           /\ lastOp' = NoOp
           /\ callOps' = <<>>
           /\ UNCHANGED <<flash, startBlock, endBlock, writeOffset, state>>]_vars

\* A writeEntry has been refused by a Log that is not initialised, after an
\* init that failed.
C15_RefusedUninitialised ==
    state = "uninitialised" /\ initRet = "false" /\ ret = "false" /\ lastOp = NoOp

\* The sequences that the read claims ask for
AskedSequences == 0..(MaxSeq + 1)

\* C16: Log::read returns a negative value and issues no partition read
\* whenever the engine is not ready (state uninitialised or busy) or the
\* requested sequence is greater than endBlock.sequence.
C16_ReadRefuses ==
    \A s \in AskedSequences, o \in ReadOffsets, l \in ReadLens :
        state # "ready" \/ s > endBlock.sequence =>
            /\ Read(s, o, l).res < 0
            /\ Read(s, o, l).reads = <<>>

\* A writeEntry is in flight (state busy) on a log that holds entries, so that
\* a read of an existing sequence is refused only because of the state.
C16_BusyWithEntries ==
    state = "busy" /\ endBlock.sequence >= 1 /\ Len(entries) >= 1 /\ pc = "info"

\* C17: exact bytes of an entry: when writeEntry(kind, info, infoLength, data,
\* dataLength) has returned true, the flash at the start offset of the entry
\* holds header{size = infoLength + dataLength, kind, flags = 0xFE}, then the
\* info bytes, then the data bytes, and writeOffset is the start offset
\* + 4 + align_up_4(infoLength + dataLength).
C17_ExactBytes ==
    Returned /\ Len(entries) > 0 =>
        LET e == entries[Len(entries)]
            c == e.call
        IN  /\ PartRead(flash, e.off, HeaderSize)
                   = HeaderBytes(c.infoLength + c.dataLength, c.kind, FlagsValid)
            /\ PartRead(flash, e.off + HeaderSize, c.infoLength) = InfoBytes(c)
            /\ PartRead(flash, e.off + HeaderSize + c.infoLength, c.dataLength) = DataBytes(c)
            /\ writeOffset = e.off + HeaderSize + ALIGNUP4(c.infoLength + c.dataLength)

AllErased(f) == \A i \in DOMAIN f : f[i] = 255

\* C18: cold boot: on an all-0xFF partition init yields startBlock = endBlock
\* = {0,0} and writeOffset = 0; the first writeEntry of a boot record with a
\* 1-byte payload then writes at offset 0 a 12-byte block-start record (size 8,
\* kind 1, flags 0xFF, magic 0xA78BE044, sequence 1) and after it the boot
\* record (size 1, kind 2, flags 0xFE, the reason byte), and leaves
\* writeOffset = 16.
C18_ColdBoot ==
    /\ AllErased(flash) /\ state = "ready" /\ pc = "idle" =>
           /\ startBlock = BlockInfo(0, 0)
           /\ endBlock = BlockInfo(0, 0)
           /\ writeOffset = 0
    /\ (/\ Returned
        /\ crashes = 0
        /\ Len(blockSeqs) = 1
        /\ Len(entries) = 1
        /\ entries[1].call = BootCall) =>
           /\ PartRead(flash, 0, 12) = <<8, 0, 1, 255, 68, 224, 139, 167, 1, 0, 0, 0>>
           /\ PartRead(flash, 12, 5) = <<1, 0, 2, 254>> \o InfoBytes(BootCall)
           /\ writeOffset = 16

\* C18 as amended: the same, with writeOffset = 20 after the boot record: the
\* 12-byte block-start record, the 4-byte header of the boot record and its
\* 1-byte payload padded to 4 bytes.
C18_ColdBootAligned ==
    /\ AllErased(flash) /\ state = "ready" /\ pc = "idle" =>
           /\ startBlock = BlockInfo(0, 0)
           /\ endBlock = BlockInfo(0, 0)
           /\ writeOffset = 0
    /\ (/\ Returned
        /\ crashes = 0
        /\ Len(blockSeqs) = 1
        /\ Len(entries) = 1
        /\ entries[1].call = BootCall) =>
           /\ PartRead(flash, 0, 12) = <<8, 0, 1, 255, 68, 224, 139, 167, 1, 0, 0, 0>>
           /\ PartRead(flash, 12, 5) = <<1, 0, 2, 254>> \o InfoBytes(BootCall)
           /\ PartRead(flash, 17, 3) = <<255, 255, 255>>
           /\ writeOffset = 20

\* The boot record has been written as the first entry of an erased partition.
C18_BootRecordWritten ==
    /\ Returned
    /\ crashes = 0
    /\ Len(blockSeqs) = 1
    /\ Len(entries) = 1
    /\ entries[1].call = BootCall
    /\ entries[1].off = 12

\* The on-flash bytes of the live blocks in sequence order: from the first
\* byte of the oldest block on flash up to writeOffset.
LiveSpan ==
    LET r   == InitResult(flash, blockSize, totalBlocks)
        len == IF endBlock.sequence = 0 THEN 0
               ELSE (endBlock.sequence - r.startBlock.sequence) * blockSize
                        + (writeOffset - endBlock.number * blockSize)
    IN  RingBytes(flash, r.startBlock.number * blockSize, len)

\* The consumer of a Reader bound to getStartBlock() has reached isFinished().
ReaderFinished ==
    reader.kind = "reader" /\ reader.startBlock = U16(startBlock.sequence) /\ reader.done

\* C19: the Reader yields the live span: with no writes interleaved, a consumer
\* that binds a Reader to getStartBlock() and calls readMemoryBlock(buf, n) and
\* seekFrom(count, Current) until isFinished() receives exactly the on-flash
\* bytes of the live blocks in sequence order, from the first byte of the
\* startBlock block up to writeOffset, for every chunk size n > 0 and every
\* position of the ring seam.
C19_ReaderYieldsLiveSpan == ReaderFinished => reader.got = LiveSpan

\* C19, for a Log whose startBlock is the oldest block on flash and a buffer
\* size below 2^16 (checked under SpecReader).
C19_StartBlockOnFlash ==
    /\ ReaderFinished
    /\ startBlock = InitResult(flash, blockSize, totalBlocks).startBlock
    /\ reader.max < 65536
    => reader.got = LiveSpan

\* C19, in addition for a ring whose write position is not the start of the
\* oldest block (checked under SpecReader).
C19_SeamNotAtStart ==
    /\ ReaderFinished
    /\ startBlock = InitResult(flash, blockSize, totalBlocks).startBlock
    /\ reader.max < 65536
    /\ ~(endBlock.sequence > startBlock.sequence /\ writeOffset = startBlock.number * blockSize)
    => reader.got = LiveSpan

\* readMemoryBlock has returned (the consumer has not yet called seekFrom)
ReadMemoryBlockReturned == reader.kind # "none" /\ reader.phase = "seek"

\* C20: Reader finish marking: readMemoryBlock(buf, max) returns at most max
\* bytes, and it marks the stream finished (isFinished() true, return value 0)
\* whenever Log::read returns zero or a negative value, and also whenever a
\* finite size was bound and pos >= size.
C20_FinishMarking ==
    ReadMemoryBlockReturned =>
        /\ reader.res <= reader.max
        /\ reader.logRes <= 0 => reader.done /\ reader.res = 0
        /\ reader.kind = "sized" /\ reader.readPos >= reader.size =>
               reader.done /\ reader.res = 0

\* C20, for the Reader that is bound to a start block only (checked under
\* SpecReader).
C20_UnsizedFinishMarking ==
    ReadMemoryBlockReturned /\ reader.kind = "reader" =>
        /\ reader.res <= reader.max
        /\ reader.logRes <= 0 => reader.done /\ reader.res = 0

\* The offsets that the seek claim tries
SeekOffsets == {0, 4, BlockSize, MaxTotalBlocks * BlockSize + 4}

\* seekFrom of the reader that is bound
Seek(offset, origin) ==
    IF reader.kind = "sized" THEN SizedSeek(reader, offset, origin)
    ELSE ReaderSeek(reader, offset, origin)

\* The end of the stream: the size that a sized reader was bound with, else the
\* number of bytes from the start of the block that the reader was bound to up
\* to writeOffset.
StreamEnd ==
    IF reader.kind = "sized" THEN reader.size
    ELSE IF reader.startBlock > endBlock.sequence \/ endBlock.sequence = 0 THEN 0
    ELSE (endBlock.sequence - reader.startBlock) * blockSize
             + (writeOffset - endBlock.number * blockSize)

SeekTarget(offset, origin) ==
    CASE origin = "Start"   -> offset
      [] origin = "Current" -> reader.readPos + offset
      [] origin = "End"     -> StreamEnd + offset

SeeksAsClaimed(offset, origin) ==
    LET x == Seek(offset, origin)
        t == SeekTarget(offset, origin)
    IN  IF t > StreamEnd
        THEN x.ret = -1 /\ x.readPos = reader.readPos
        ELSE x.ret = t /\ x.readPos = t

\* C21: Reader seek: seekFrom(offset, origin) accepts the origins Start,
\* Current and End, sets the position to offset, pos + offset or end + offset
\* and returns the new position; when the new position would be past the end
\* it returns -1 and leaves the position unchanged.
C21_SeekFrom ==
    reader.kind # "none" =>
        \A offset \in SeekOffsets, origin \in Origins : SeeksAsClaimed(offset, origin)

\* C21, for the DataLogReader that is bound with a size (checked under
\* SpecReader).
C21_SizedSeekFrom ==
    reader.kind = "sized" =>
        \A offset \in SeekOffsets, origin \in Origins : SeeksAsClaimed(offset, origin)

\* C22: table ids: allocateTableId returns the pre-incremented counter, so the
\* k-th call since the start of the process returns k; the counter is shared
\* by all Log objects and is not reset by init, hence every Table constructed
\* within one boot gets a distinct non-zero id.
C22_TableIds ==
    /\ \A k \in DOMAIN tableIds : tableIds[k].id = k
    /\ \A k \in DOMAIN tableIds : tableIds[k].id # 0
    /\ \A j, k \in DOMAIN tableIds : j # k => tableIds[j].id # tableIds[k].id
    /\ tableCount = Len(tableIds)

\* Tables have been constructed on both Log objects, before and after an init.
C22_TablesAcrossInit ==
    /\ Len(tableIds) = MaxTables
    /\ \E j, k \in DOMAIN tableIds :
           /\ j < k
           /\ tableIds[j].inits < tableIds[k].inits
           /\ tableIds[j].log # tableIds[k].log

\* C23: sequences start at 1 and increase by exactly one per block: starting
\* from an erased partition, the first block-start record written carries
\* sequence 1 and every later block-start record written by writeEntry
\* (without fault-handler re-entry, across re-inits and across losses of power
\* followed by init) carries the sequence of the most recently written block
\* start plus 1.
C23_SequencesStepByOne ==
    faults = 0 => \A i \in DOMAIN blockSeqs : blockSeqs[i] = i

\* C23, for a ring of at least two blocks (checked under SpecFit).
C23_FitTwoBlocks ==
    faults = 0 /\ partBlocks >= 2 => \A i \in DOMAIN blockSeqs : blockSeqs[i] = i

\* The call in flight has written its entry at writeOffset: after the block
\* record of a block that this call started, as the only caller record of
\* that block.
SoleAfterBlockStart ==
    /\ writeOffset % blockSize = BlockStartSize
    /\ \E i \in DOMAIN callOps :
           callOps[i] = Op("block", writeOffset - BlockStartSize, BlockStartSize)
    /\ \A i \in DOMAIN entries :
           entries[i].off \div blockSize = writeOffset \div blockSize
               => entries[i].off = writeOffset

\* C24: largest entry: from any ready state, writeEntry of an entry whose total
\* size (4-byte header plus payload) is blockSize - 4 returns true and places
\* the entry immediately after the block-start record of a newly started
\* block, entirely inside that block, as the only caller record of that block.
C24_LargestEntry ==
    pc = "finish" /\ EntrySize(call) = blockSize - 4 =>
        /\ SoleAfterBlockStart
        /\ InOneBlock(writeOffset, EntrySize(call))

\* C24 without the containment: the entry of blockSize - 4 bytes is placed
\* after the block record of a newly started block (checked under Spec).
C24_PlacedAfterBlockStart ==
    pc = "finish" /\ EntrySize(call) = blockSize - 4 => SoleAfterBlockStart

\* The sequence of block b as the claims define it: the sequence field of the
\* first 12 bytes when they are a block record (size 8, kind 1, the magic
\* 0xA78BE044), else 0.
SlotSequence(b) ==
    LET r == [i \in 1..12 |-> flash[b * blockSize + i - 1]]
    IN  IF /\ <<r[1], r[2]>> = <<8, 0>>
           /\ r[3] = 1
           /\ <<r[5], r[6], r[7], r[8]>> = <<68, 224, 139, 167>>
        THEN r[9] + 256 * r[10] + 65536 * r[11] + 16777216 * r[12]
        ELSE 0

Slots == 0..(totalBlocks - 1)

\* init has returned true on a partition that holds at least one block record
InitOnNonEmpty ==
    /\ state = "ready"
    /\ pc = "idle"
    /\ initRet = "true"
    /\ ret = "none"
    /\ \E b \in Slots : SlotSequence(b) # 0

SlotBefore(b, k) == (b + k * (totalBlocks - 1)) % totalBlocks

\* C25: init selects the live span by maximum and backwards contiguity: with
\* the per-block sequences not all zero (a corrupt or foreign block counts as
\* 0 and does not make init fail), endBlock is the lowest-numbered slot that
\* holds the maximum sequence, the slots from startBlock to endBlock in ring
\* order hold consecutive sequences, and startBlock has sequence 1 or the slot
\* before it does not hold the preceding sequence.
C25_InitSelectsLiveSpan ==
    /\ pc = "idle" /\ partition = "log" /\ initRet # "none" => initRet = "true"
    /\ InitOnNonEmpty =>
           LET d == endBlock.sequence - startBlock.sequence
           IN  /\ endBlock.number \in Slots
               /\ endBlock.sequence = SlotSequence(endBlock.number)
               /\ \A b \in Slots : SlotSequence(b) <= endBlock.sequence
               /\ \A b \in Slots : b < endBlock.number => SlotSequence(b) < endBlock.sequence
               /\ d >= 0
               /\ startBlock.number = SlotBefore(endBlock.number, d)
               /\ \A k \in 0..d :
                      SlotSequence(SlotBefore(endBlock.number, k)) = endBlock.sequence - k
               /\ \/ startBlock.sequence = 1
                  \/ SlotSequence(SlotBefore(startBlock.number, 1)) # startBlock.sequence - 1

\* init has walked backwards across slot 0 on a partition that holds a block
\* which starts with something that is not a block record.
C25_WalkedAcrossSlotZero ==
    /\ InitOnNonEmpty
    /\ startBlock.number > endBlock.number
    /\ \E b \in Slots : SlotSequence(b) = 0 /\ flash[b * blockSize] # 255

\* The first offset at or after p whose header has kind 0xFF, with the headers
\* chained by align_up_4(4 + size); the chain ends at or beyond `end`.
RECURSIVE ChainEnd(_, _)
ChainEnd(p, end) ==
    IF p >= end \/ flash[p + 2] = 255 THEN p
    ELSE ChainEnd(p + ((4 + flash[p] + 256 * flash[p + 1] + 3) \div 4) * 4, end)

\* C26: init recovers a bounded write offset from any end-block contents: after
\* init on a non-empty log writeOffset is the offset of the first header in
\* the end block whose kind is erased when the headers are chained from the
\* block start by align_up_4(4 + size), clamped to the block end if the chain
\* overshoots; it is a multiple of 4 and lies above the start of the end block
\* and not beyond its end.
C26_InitWriteOffset ==
    InitOnNonEmpty =>
        LET start == endBlock.number * blockSize
            end   == start + blockSize
            c     == ChainEnd(start, end)
        IN  /\ writeOffset = IF c > end THEN end ELSE c
            /\ writeOffset % 4 = 0
            /\ start < writeOffset
            /\ writeOffset <= end

\* init has clamped the write offset: the chain of the end block overshoots
\* the end of the block.
C26_Clamped ==
    /\ InitOnNonEmpty
    /\ writeOffset = (endBlock.number + 1) * blockSize
    /\ ChainEnd(endBlock.number * blockSize, writeOffset) > writeOffset

\* The kinds of the partition operations of the call in flight, in order
OpKinds == [i \in DOMAIN callOps |-> callOps[i].what]

\* the operations that place an entry of call c, in order
EntryOps(c) ==
    IF c.dataLength # 0 THEN <<"header", "info", "data", "commit">>
    ELSE <<"header", "info", "commit">>

\* The call in flight has just written a pad header.
PadWritten ==
    pc \in {"block", "header"} /\ callOps # <<>> /\ callOps[Len(callOps)].what = "pad"

\* C27: pad then wrap: when the space left in the current block is smaller than
\* the entry, writeEntry writes exactly one pad header at writeOffset with kind
\* pad, flags 0 and size = space - 4, so that the pad ends at the block
\* boundary, and only then erases the next ring block, writes its block-start
\* record and places the caller's entry after it; it writes no pad when the
\* entry fits in the space left.
C27_PadThenWrap ==
    /\ PadWritten =>
           LET off   == callOps[1].off
               space == blockSize - (off % blockSize)
           IN  /\ Len(callOps) = 1
               /\ space < EntrySize(call)
               /\ ReadHeader(flash, off) = [size |-> space - 4, kind |-> 0, flags |-> 0]
               /\ off + 4 + (space - 4) = writeOffset
               /\ writeOffset % blockSize = 0
    /\ pc = "finish" =>
           IF callOps[1].what = "pad"
           THEN LET next == (callOps[1].off + blockSize - (callOps[1].off % blockSize))
                               % (blockSize * totalBlocks)
                IN  /\ OpKinds = <<"pad", "erase", "block">> \o EntryOps(call)
                    /\ callOps[2] = Op("erase", next, blockSize)
                    /\ callOps[3] = Op("block", next, BlockStartSize)
                    /\ callOps[4] = Op("header", next + BlockStartSize, HeaderSize)
                    /\ writeOffset = next + BlockStartSize
           ELSE /\ \A i \in DOMAIN callOps : callOps[i].what # "pad"
                /\ blockSize - (writeOffset % blockSize) >= EntrySize(call)
                       \/ writeOffset % blockSize = BlockStartSize

\* A call of writeEntry begins, for an entry that is exactly as large as the
\* space left in the current block.
ExactFitBegins ==
    /\ pc = "idle" /\ pc' # "idle"
    /\ blockSize > 0
    /\ EntrySize(call') = Space(writeOffset, blockSize)

\* The call in flight was begun with exactly the space that its entry needs.
ExactFitInFlight ==
    /\ callOps # <<>> /\ callOps[1].what = "header"
    /\ EntrySize(call) = Space(callOps[1].off, blockSize)

\* a call of writeEntry begins with writeOffset on a block boundary that an
\* entry has reached
BoundaryBegins ==
    /\ pc = "idle" /\ pc' # "idle"
    /\ blockSize > 0
    /\ writeOffset > 0 /\ writeOffset % blockSize = 0

\* C28: exact fit: when 4 + infoLength + dataLength equals the space left in
\* the current block, the entry is written in the current block without a pad
\* and writeOffset then equals the end boundary of that block; the writeEntry
\* that follows starts the next block without writing a pad: it erases the
\* next ring block and writes a block-start record with sequence + 1.
C28_ExactFit ==
    [][ /\ ExactFitBegins => pc' = "header" /\ writeOffset' = writeOffset
        /\ pc = "finish" /\ pc' = "idle" /\ state' = "ready" /\ ExactFitInFlight =>
               LET off == callOps[1].off
                   end == (off \div blockSize + 1) * blockSize
               IN  /\ OpKinds = EntryOps(call)
                   /\ \A i \in DOMAIN callOps :
                          callOps[i].off >= off /\ callOps[i].off + callOps[i].len <= end
                   /\ writeOffset' = end
        /\ BoundaryBegins => pc' = "block" /\ callOps' = <<>> /\ writeOffset' = writeOffset
        /\ pc = "block" /\ pc' = "erase" /\ callOps = <<>> =>
               /\ endBlock'.sequence = endBlock.sequence + 1
               /\ endBlock'.number = (writeOffset \div blockSize) % totalBlocks
               /\ writeOffset' = endBlock'.number * blockSize
        /\ pc = "erase" /\ pc' = "blockstart" =>
               callOps' = Append(callOps, Op("erase", endBlock.number * blockSize, blockSize))
        /\ pc = "blockstart" /\ pc' = "header" =>
               /\ callOps' = Append(callOps, Op("block", endBlock.number * blockSize,
                                                BlockStartSize))
               /\ InRange(flash, endBlock.number * blockSize, BlockStartSize) =>
                      PartRead(flash', endBlock.number * blockSize, BlockStartSize)
                          = BlockStartBytes(endBlock.sequence)
      ]_vars

\* After an entry has filled a block exactly, the call that follows has
\* erased the next ring block and written its block-start record, without a pad.
C28_NextBlockStarted ==
    /\ pc = "header"
    /\ OpKinds = <<"erase", "block">>
    /\ totalBlocks >= 2
    /\ entries # <<>>
    /\ LET e == entries[Len(entries)]
       IN  /\ (e.off + EntrySize(e.call)) % blockSize = 0
           /\ e.off \div blockSize # endBlock.number
    /\ endBlock.sequence >= 2

\* The sequence of the block record on flash in slot b, 0 if there is none
SequenceOnFlash(b) ==
    IF BlockStartIsValid(flash, b * BlockSize) THEN ReadU32(flash, b * BlockSize + 8) ELSE 0

\* the bytes of the record at entries[i]: header and aligned content
RecordBytes(i) ==
    LET e == entries[i]
    IN  e.off .. (e.off + HeaderSize + ALIGNUP4(HeaderSizeField(e.call)) - 1)

\* Torn records: entries on flash whose header was written and never rewritten
\* as valid, other than the entry of the call in flight.
TornEntries ==
    { i \in DOMAIN entries :
        /\ ~(pc \in {"info", "data", "commit", "finish"} /\ i = Len(entries))
        /\ ReadHeader(flash, entries[i].off)
               = [size |-> HeaderSizeField(entries[i].call), kind |-> entries[i].call.kind,
                  flags |-> FlagsErased] }

\* C29: crash during the commit of a header: if power is lost after the header
\* of a caller entry was written with invalid = 1 and before it is rewritten as
\* valid, then after init on the same partition writeOffset lies past the torn
\* record (its start + 4 + align_up_4(size)); while the block of the torn
\* record is live no byte of the record is overwritten, every write into that
\* block is at or after that offset, and the header keeps invalid = 1.
C29_TornRecordKept ==
    [][ \A i \in TornEntries :
          LET e    == entries[i]
              slot == e.off \div BlockSize
              seq  == SequenceOnFlash(slot)
              past == e.off + HeaderSize + ALIGNUP4(HeaderSizeField(e.call))
          IN  /\ state' # "uninitialised" /\ partition' = "log"
                 /\ endBlock' = BlockInfo(slot, seq) =>
                     writeOffset' >= past
              /\ seq >= 1 /\ startBlock'.sequence <= seq /\ seq <= endBlock'.sequence =>
                     /\ \A k \in RecordBytes(i) : k \in DOMAIN flash => flash'[k] = flash[k]
                     /\ lastOp'.op = "write" /\ lastOp'.len > 0
                         /\ lastOp'.off \div BlockSize = slot
                         /\ lastOp' # lastOp =>
                            lastOp'.off >= past
                     /\ ReadHeader(flash', e.off).flags = FlagsErased
      ]_vars

\* After a crash that tore a record and the init that followed, a later entry
\* has been written behind the torn record in the same block.
C29_WrittenBehindTorn ==
    /\ crashes = 1 /\ pc = "idle" /\ ret = "true"
    /\ \E i \in TornEntries :
          /\ i < Len(entries)
          /\ entries[i + 1].off \div BlockSize = entries[i].off \div BlockSize
          /\ entries[i + 1].off
                 = entries[i].off + HeaderSize + ALIGNUP4(HeaderSizeField(entries[i].call))

\* The buffer sizes that Log::read is asked with
ReadLengths == {0, 1, 4, BlockSize, 2 * BlockSize + 4, 65535}

\* C30: read offsets stay inside the ring: in every ready state, for every
\* live sequence s in [startBlock.sequence, endBlock.sequence], every offset
\* below blockSize and every length, each partition.read that Log::read issues
\* starts below totalBlocks * blockSize and ends at or below it.
C30_ReadsInsideRing ==
    state = "ready" /\ partition = "log" =>
        \A s \in startBlock.sequence .. endBlock.sequence :
            \A offset \in 0 .. (blockSize - 1), len \in ReadLengths :
                LET r == Read(s, offset, len).reads
                IN  \A i \in DOMAIN r :
                        /\ r[i].off < totalBlocks * blockSize
                        /\ r[i].off + r[i].len <= totalBlocks * blockSize

\* C30 for the reads of a Log whose start block is on flash with its sequence
\* (after an init on a partition that holds blocks).
C30_ReadsAfterScan ==
    state = "ready" /\ partition = "log" /\ startBlock.sequence >= 1 =>
        \A s \in startBlock.sequence .. endBlock.sequence :
            \A offset \in 0 .. (blockSize - 1), len \in ReadLengths :
                LET r == Read(s, offset, len).reads
                IN  \A i \in DOMAIN r :
                        /\ r[i].off < totalBlocks * blockSize
                        /\ r[i].off + r[i].len <= totalBlocks * blockSize

\* The sequences that Log::read accepts and that are not below the start block
LiveSequences == startBlock.sequence .. endBlock.sequence

WriteIssued ==
    /\ Len(callOps') = Len(callOps) + 1
    /\ callOps'[Len(callOps')].what # "erase"

\* C32: flash write discipline: on a partition that was erased before first
\* use, for entries that fit in a block after its block-start record, across
\* any sequence of init, writeEntry and power loss, every partition.write
\* targets bytes inside the partition that are erased (0xFF); the exception is
\* the second header write of a commit, which rewrites the same header and
\* changes only bit 0 of flags from 1 to 0.  No write needs a bit to go from
\* 0 to 1.
C32_WritesOnErased ==
    [][ WriteIssued =>
          LET op    == callOps'[Len(callOps')]
              bytes == op.off .. (op.off + op.len - 1)
          IN  /\ op.len > 0 => InRange(flash, op.off, op.len)
              /\ IF op.what = "commit"
                 THEN /\ \A k \in op.off .. (op.off + 2) : flash'[k] = flash[k]
                      /\ flash[op.off + 3] = FlagsErased
                      /\ flash'[op.off + 3] = FlagsErased - 1
                      /\ ReadHeader(flash', op.off)
                             = [size |-> HeaderSizeField(call), kind |-> call.kind,
                                flags |-> FlagsValid]
                 ELSE \A k \in bytes : flash[k] = ErasedByte
      ]_vars

\* After a power loss and the init that followed, an entry has been committed
\* in a block that was started by wrapping onto a block used before.
C32_CommittedAfterCrashAndWrap ==
    /\ crashes = 1
    /\ pc = "finish"
    /\ callOps[Len(callOps)].what = "commit"
    /\ endBlock.sequence > totalBlocks

\* The call in flight has erased a block.
HasErased(ops) == \E i \in DOMAIN ops : ops[i].what = "erase"

\* C33: committed data is immutable until retirement: a writeEntry call for an
\* entry that fits in a block changes flash only in the bytes at or after the
\* pre-call writeOffset inside the current end block and in the single next
\* ring block that it erases and begins; every byte before writeOffset in the
\* end block and every byte of every other block is left unchanged.
C33_WriteEntryFrame ==
    [][ /\ \A k \in DOMAIN flash :
               flash'[k] # flash[k] =>
                   /\ pc # "idle"
                   /\ k \div BlockSize = endBlock.number
                   /\ ~HasErased(callOps') => k >= writeOffset
        /\ pc = "block" /\ pc' = "erase" =>
               \/ endBlock'.number = (endBlock.number + 1) % totalBlocks
               \/ writeOffset = 0 /\ endBlock' .number = endBlock.number
        /\ pc = "erase" /\ pc' = "blockstart" => ~HasErased(callOps)
      ]_vars

\* A call has written a pad into the end block, then erased and begun the
\* next ring block, on a ring that had wrapped before, and committed its entry.
C33_PaddedAndWrapped ==
    /\ pc = "finish"
    /\ OpKinds = <<"pad", "erase", "block">> \o EntryOps(call)
    /\ totalBlocks = 2
    /\ endBlock.sequence = 3

\* A fault handler has entered writeEntry before the interrupted call wrote
\* the block-start record of the block that it was starting, or any entry.
InterruptedBeforeBlockStart ==
    /\ handler
    /\ abandoned = <<>> \/ abandoned[Len(abandoned)].what \in {"pad", "erase"}

\* C34: re-entry keeps sequences consecutive: if a fault handler re-enters
\* writeEntry while the interrupted call is starting a new block (after
\* endBlock.sequence was incremented and before writeOffset was advanced past
\* the block-start record), endBlock.sequence is incremented only once for
\* that physical block: every block-start record written carries the sequence
\* of the block before it plus 1, from 1 on an erased partition.
C34_ReentryKeepsSequences ==
    InterruptedBeforeBlockStart =>
        /\ \A i \in DOMAIN blockSeqs : blockSeqs[i] = i
        /\ HandlerReturned => endBlock.sequence = Len(blockSeqs)

\* C35: read of a retired block is refused: in a ready state Log::read for a
\* sequence below startBlock.sequence returns no data (a negative value or 0)
\* and issues no partition read at an offset outside
\* [0, totalBlocks * blockSize).
C35_RetiredRefused ==
    state = "ready" /\ partition = "log" =>
        \A block \in 0 .. (startBlock.sequence - 1) :
            \A offset \in 0 .. (blockSize - 1), len \in ReadLengths :
                LET r == Read(block, offset, len)
                IN  /\ r.res <= 0
                    /\ \A i \in DOMAIN r.reads :
                           /\ r.reads[i].off >= 0
                           /\ r.reads[i].off < totalBlocks * blockSize

\* C36: read never returns unwritten or out-of-span bytes: for sequence =
\* endBlock.sequence and an offset below blockSize that lies strictly beyond
\* the write position inside the end block, Log::read returns 0 bytes; and no
\* read of a live sequence takes bytes from between writeOffset and the end of
\* the end block, which lie outside the span from the start block to
\* writeOffset.
C36_NoUnwrittenBytes ==
    state = "ready" /\ partition = "log" =>
        /\ \A offset \in 0 .. (blockSize - 1), len \in ReadLengths :
               endBlock.number * blockSize + offset > writeOffset =>
                   Read(endBlock.sequence, offset, len).res = 0
        /\ \A s \in LiveSequences, offset \in 0 .. (blockSize - 1), len \in ReadLengths :
               LET r == Read(s, offset, len).reads
               IN  \A i \in DOMAIN r :
                       \/ r[i].off + r[i].len <= writeOffset
                       \/ r[i].off >= (endBlock.number + 1) * blockSize

\* A step of Log::init that returns true.
InitStep ==
    /\ pc = "idle" /\ pc' = "idle"
    /\ crashes' = crashes
    /\ initRet' = "true" /\ ret' = "none" /\ state' = "ready"

\* init has returned true on the log partition and writeEntry has not been
\* called since.
FreshInit ==
    /\ pc = "idle" /\ state = "ready" /\ partition = "log"
    /\ initRet = "true" /\ ret = "none"

C38_InitTerminates ==
    InitOnNonEmpty =>
        LET seqs == ReadSequences(flash, blockSize, totalBlocks)
            walk == StartWalk(seqs, totalBlocks, endBlock)
            end  == (endBlock.number + 1) * blockSize
            offs == ScanOffsets(flash, endBlock.number * blockSize, end)
            last == offs[Len(offs)]
        IN  /\ Len(walk) <= totalBlocks
            /\ \A i, j \in DOMAIN walk : i # j => walk[i].number # walk[j].number
            /\ walk[Len(walk)] = startBlock
            /\ \A i \in 1 .. (Len(offs) - 1) : offs[i + 1] >= offs[i] + 4
            /\ Len(offs) <= blockSize \div 4 + 1
            /\ last >= end \/ ReadHeader(flash, last).kind = KindErased
            /\ writeOffset = IF last > end THEN end ELSE last

\* init has walked back over every slot of the partition and has scanned an end
\* block that is filled to its end with records of 4 bytes.
C38_LongestScans ==
    /\ InitOnNonEmpty
    /\ totalBlocks >= 2
    /\ endBlock.sequence - startBlock.sequence = totalBlocks - 1
    /\ Len(ScanOffsets(flash, endBlock.number * blockSize, (endBlock.number + 1) * blockSize))
           = (blockSize - BlockStartSize) \div 4 + 2

\* C39: reader consumption terminates: with no writes interleaved, a consumer
\* loop that calls readMemoryBlock(buf, n) with n > 0 and then
\* seekFrom(count, Current) with the count returned reaches isFinished() after
\* finitely many iterations, for any bound start sequence between
\* startBlock.sequence and endBlock.sequence.
C39_ConsumptionTerminates == reader.kind # "none" ~> reader.done

\* C39, for the Reader that is bound to a start block only (checked under
\* SpecConsume).
C39_UnsizedTerminates == reader.kind = "reader" ~> reader.done

\* C40: sequence width is preserved at the read interface: for every value of
\* the 32-bit block sequences, getStartBlock() and getEndBlock() return exactly
\* startBlock.sequence and endBlock.sequence, Log::read(getEndBlock(), 0, ...)
\* addresses the end block and a Reader bound to getStartBlock() addresses the
\* start block, with no truncation modulo 2^16 once more than 65535 blocks
\* have been written.
C40_SequenceWidth ==
    state = "ready" /\ partition = "log" /\ endBlock.sequence > 0 =>
        /\ GetStartBlock = startBlock.sequence
        /\ GetEndBlock = endBlock.sequence
        /\ ~ReadRefused(GetEndBlock)
        /\ ReadOffset(GetEndBlock, 0) = endBlock.number * blockSize
        /\ ReadOffset(U16(GetStartBlock), 0) = startBlock.number * blockSize

\* C40 for sequences below 2^16: the getters return the sequences and the
\* reads address the end block and the start block.
C40_NarrowSequences ==
    state = "ready" /\ partition = "log" /\ endBlock.sequence > 0
    /\ endBlock.sequence < 65536 =>
        /\ GetStartBlock = startBlock.sequence
        /\ GetEndBlock = endBlock.sequence
        /\ ~ReadRefused(GetEndBlock)
        /\ ReadOffset(GetEndBlock, 0) = endBlock.number * blockSize
        /\ ReadOffset(U16(GetStartBlock), 0) = startBlock.number * blockSize

====
